---- MODULE Spec2Model ----
(***************************************************************************)
(* A model of the gocryptfs file I/O path (pathfs_frontend/file.go) and of *)
(* the directory cache (internal/fusefrontend/dircache.go).                *)
(*                                                                         *)
(* The backing file is a sequence of cells.  One cell stands for the       *)
(* 12-byte nonce, one cell for each payload byte and one cell for the      *)
(* 16-byte tag of a ciphertext block, so a full ciphertext block has       *)
(* PlainBS + NonceLen + TagLen cells.  file.go addresses ciphertext block  *)
(* n at backing offset n * CipherBS (file.go:91, file.go:275): this file   *)
(* I/O layer keeps no header in front of the blocks.                       *)
(***************************************************************************)
EXTENDS Integers, Sequences, FiniteSets, TLC

\* ------------------------------------------------------------- bounds ----

\* Plaintext block size, scaled down from 4096.
PlainBS == 2

\* ------------------------------------------------ ContentEnc (cryptfs) ----

NonceLen == 1
TagLen == 1
BlockOverhead == NonceLen + TagLen
CipherBS == PlainBS + BlockOverhead
\* Calls stay within three blocks: the block the file ends in, a block a
\* write skips, and the first byte of the block after it.
MaxPlain == 2 * PlainBS + 1
MaxBlocks == MaxPlain \div PlainBS + 1

\* Plaintext byte values and the nonces the random source hands out.  A nonce
\* is never all-zero here (probability 2^-96 in the program).
Bytes == {0, 1}
Nonces == {1, 2}
ByteMod == Cardinality(Bytes)

Min(a, b) == IF a < b THEN a ELSE b
Max(a, b) == IF a > b THEN a ELSE b
Zeros(n) == [i \in 1..n |-> 0]
Take(s, n) == SubSeq(s, 1, Min(n, Len(s)))
Drop(s, n) == SubSeq(s, Min(n, Len(s)) + 1, Len(s))
AllZero(s) == \A i \in 1..Len(s) : s[i] = 0

\* Keystream cell i of block blockNo under a nonce.
KeyStream(nonce, blockNo, i) == (nonce + blockNo + i) % ByteMod

\* The payload as a number, length included (injective on payloads).
RECURSIVE PayloadCode(_)
PayloadCode(c) ==
    IF c = <<>> THEN 1 ELSE c[1] + ByteMod * PayloadCode(Tail(c))

\* The authentication tag over nonce, associated data (the block number) and
\* payload: injective, and never 0.
GcmTag(nonce, blockNo, c) ==
    1 + nonce + (Cardinality(Nonces) + 1) * (blockNo + (MaxBlocks + 2) * PayloadCode(c))

\* EncryptBlock: [nonce][plaintext XOR keystream][tag].
EncryptBlock(plaintext, blockNo, nonce) ==
    LET c == [i \in 1..Len(plaintext) |->
                 (plaintext[i] + KeyStream(nonce, blockNo, i)) % ByteMod]
    IN  <<nonce>> \o c \o <<GcmTag(nonce, blockNo, c)>>

\* DecryptBlock: [err, plain].  An empty block is an empty plaintext, a full
\* block of zero cells is a hole and reads as PlainBS zero bytes, a block of
\* at most nonce+tag cells is invalid, anything else must authenticate.
DecryptBlock(cb, blockNo) ==
    IF Len(cb) = 0 THEN [err |-> FALSE, plain |-> <<>>]
    ELSE IF Len(cb) = CipherBS /\ AllZero(cb)
         THEN [err |-> FALSE, plain |-> Zeros(PlainBS)]
    ELSE IF Len(cb) <= BlockOverhead THEN [err |-> TRUE, plain |-> <<>>]
    ELSE LET nonce == cb[1]
             c     == SubSeq(cb, 2, Len(cb) - 1)
             tag   == cb[Len(cb)]
         IN  IF tag # GcmTag(nonce, blockNo, c)
             THEN [err |-> TRUE, plain |-> <<>>]
             ELSE [err |-> FALSE,
                   plain |-> [i \in 1..Len(c) |->
                                (c[i] - KeyStream(nonce, blockNo, i)) % ByteMod]]

\* DecryptBlocks: the blocks of a ciphertext buffer in order, stopping at the
\* first block that fails; plain holds what was decrypted before it.
RECURSIVE DecryptBlocks(_, _)
DecryptBlocks(ciphertext, firstBlockNo) ==
    IF Len(ciphertext) = 0 THEN [err |-> FALSE, plain |-> <<>>]
    ELSE LET d == DecryptBlock(Take(ciphertext, CipherBS), firstBlockNo)
         IN  IF d.err THEN [err |-> TRUE, plain |-> <<>>]
             ELSE LET rest == DecryptBlocks(Drop(ciphertext, CipherBS), firstBlockNo + 1)
                  IN  [err |-> rest.err, plain |-> d.plain \o rest.plain]

\* CiphertextRange: the full ciphertext blocks covering plaintext (off, length)
\* and the plaintext bytes to skip in the first of them.
CiphertextRange(off, length) ==
    LET firstBlockNo == off \div PlainBS
        lastBlockNo  == (off + length - 1) \div PlainBS
    IN  [alignedOffset |-> firstBlockNo * CipherBS,
         alignedLength |-> IF length = 0 THEN 0
                           ELSE (lastBlockNo - firstBlockNo + 1) * CipherBS,
         skip          |-> off % PlainBS]

\* SplitRange: the write plan, one record per block touched, in block order.
RECURSIVE SplitRange(_, _)
SplitRange(off, length) ==
    IF length = 0 THEN <<>>
    ELSE LET skip == off % PlainBS
             n    == Min(length, PlainBS - skip)
         IN  <<[BlockNo |-> off \div PlainBS, Skip |-> skip, Length |-> n]>>
             \o SplitRange(off + n, length - n)

\* intraBlock.IsPartial, PlaintextRange and CiphertextRange.
IsPartial(b) == b.Skip > 0 \/ b.Skip + b.Length < PlainBS
BlockPlaintextOff(b) == b.BlockNo * PlainBS
BlockCiphertextOff(b) == b.BlockNo * CipherBS
BlockCiphertextLen(b) == CipherBS

BlockNoPlainOff(plainOff) == plainOff \div PlainBS

\* MergeBlocks: newData laid over oldData at offset skip; a gap reads as zeros.
MergeBlocks(oldData, newData, skip) ==
    [i \in 1..Max(Len(oldData), skip + Len(newData)) |->
        IF i > skip /\ i <= skip + Len(newData) THEN newData[i - skip]
        ELSE IF i <= Len(oldData) THEN oldData[i]
        ELSE 0]

\* PlainSize: the plaintext size of a ciphertext file of the given size: every
\* block started costs nonce+tag cells.  (The program subtracts in uint64; the
\* difference is negative only for a file that ends inside a nonce or tag.)
PlainSize(size) ==
    IF size = 0 THEN 0
    ELSE LET nBlocks == (size + CipherBS - 1) \div CipherBS
         IN  size - nBlocks * BlockOverhead

\* ------------------------------------------------- the backing file ----

\* pread: the cells [off, off+n) that exist.
ReadAt(file, n, off) == SubSeq(file, off + 1, Min(off + n, Len(file)))

\* pwrite: data laid over the file at off; a gap past the end is zero cells.
WriteAt(file, data, off) ==
    LET size == Max(Len(file), off + Len(data))
    IN  [i \in 1..size |->
            IF i > off /\ i <= off + Len(data) THEN data[i - off]
            ELSE IF i <= Len(file) THEN file[i]
            ELSE 0]

\* ftruncate: cut, or extend with zero cells.
Ftruncate(file, size) ==
    [i \in 1..size |-> IF i <= Len(file) THEN file[i] ELSE 0]

\* ------------------------------------------------------ file I/O state ----

Procs == {1, 2}

VARIABLES
    backing,    \* the ciphertext backing file of the open handle f.fd
    writeOnly,  \* f.writeOnly
    th,         \* per thread: the FUSE call it runs on the handle and where it is
    pre,        \* per thread: the backing file when its call began
    solo,       \* per thread: no other thread has run since its call began
    file0,      \* the backing file at the start of the run
    conc,       \* TRUE in runs where both threads issue calls
    fdClosed,     \* f.fd has been closed
    attrs,      \* mode, owner and times of the backing file
    dupFds      \* how many duplicates of f.fd are open

fvars == <<backing, writeOnly, th, pre, solo, file0, conc, fdClosed, attrs, dupFds>>

VARIABLES
    entries,              \* d.entries
    nextIndex,            \* d.nextIndex
    expireThreadRunning,  \* d.expireThreadRunning
    fdTable,              \* the process's file descriptors: directory and holder
    panicked,             \* log.Panicf was called: the process is gone
    res,                  \* what the last call on the cache was and returned
    stored,               \* per path: the last Store that took effect, while no Clear
                          \* and fewer than dirCacheSize Stores followed it
    closeFault,           \* the cache has closed a descriptor that was not its own
    evicted,              \* the descriptor the latest step, a Store, evicted; else 0
    expireThreads         \* how many expireThread goroutines were started

cvars == <<entries, nextIndex, expireThreadRunning, fdTable, panicked, res, stored,
           closeFault, evicted, expireThreads>>

\* syscallcompat and nametransform: the thread of an impersonating call,
\* the state of EnospcPrealloc, and the directory that holds gocryptfs.diriv.
VARIABLES
    imp,
    prealloc,
    diriv

svars == <<imp, prealloc, diriv>>

vars == <<fvars, cvars, svars>>

OK == "OK"
EIO == "EIO"
EBADF == "EBADF"

Idle ==
    [pc |-> "idle", from |-> "", name |-> "", data |-> <<>>, off |-> 0, len |-> 0,
     caller |-> "", blocks |-> <<>>, buf |-> <<>>, written |-> 0,
     blockData |-> <<>>, tblocks |-> <<>>, tdata |-> <<>>,
     status |-> OK, n |-> 0, out |-> <<>>]

\* The call returns: its arguments, its results and the place it returned
\* from (the step, and the caller of the doWrite it was in) are kept.
Return(t, status, n, out) ==
    [Idle EXCEPT !.pc = "ret", !.from = t.pc, !.caller = t.caller,
                 !.name = t.name, !.data = t.data, !.off = t.off,
                 !.len = t.len, !.status = status, !.n = n, !.out = out]

\* doRead that does not look at DecryptBlocks' error.
doReadIgnoresAuth(file, off, length) ==
    LET r          == CiphertextRange(off, length)
        ciphertext == ReadAt(file, r.alignedLength, r.alignedOffset)
        blockNo    == r.alignedOffset \div CipherBS
        d          == DecryptBlocks(ciphertext, blockNo)
        lenHave    == Len(d.plain)
        lenWant    == r.skip + length
    IN  [status |-> OK,
         out |-> IF lenHave > lenWant
                     THEN SubSeq(d.plain, r.skip + 1, r.skip + length)
                 ELSE IF lenHave > r.skip
                     THEN SubSeq(d.plain, r.skip + 1, lenHave)
                 ELSE <<>>]

\* doRead cropping from the start of the first block instead of from skip.
doReadNoSkip(file, off, length) ==
    LET r          == CiphertextRange(off, length)
        ciphertext == ReadAt(file, r.alignedLength, r.alignedOffset)
        blockNo    == r.alignedOffset \div CipherBS
        d          == DecryptBlocks(ciphertext, blockNo)
    IN  IF d.err THEN [status |-> EIO, out |-> <<>>]
        ELSE [status |-> OK, out |-> Take(d.plain, length)]

\* doRead without the pread failure: read the covering ciphertext blocks,
\* decrypt them, crop to the plaintext asked for.
doRead(file, off, length) ==
    LET r          == CiphertextRange(off, length)
        ciphertext == ReadAt(file, r.alignedLength, r.alignedOffset)
        blockNo    == r.alignedOffset \div CipherBS
        d          == DecryptBlocks(ciphertext, blockNo)
        lenHave    == Len(d.plain)
        lenWant    == r.skip + length
    IN  IF d.err THEN [status |-> EIO, out |-> <<>>]
        ELSE [status |-> OK,
              out |-> IF lenHave > lenWant
                          THEN SubSeq(d.plain, r.skip + 1, r.skip + length)
                      ELSE IF lenHave > r.skip
                          THEN SubSeq(d.plain, r.skip + 1, lenHave)
                      ELSE <<>>]

\* createsHole: the write starts in a block after the one the file ends in.
createsHole(plainSize, off) ==
    BlockNoPlainOff(off) > BlockNoPlainOff(plainSize)

\* zeroPad's argument to doWrite: zeros from plainSize to the end of its block.
zeroPadData(plainSize) == Zeros(PlainBS - (plainSize % PlainBS))

RECURSIVE doWriteLoop(_), doWriteReturn(_, _), growLoop(_)

\* doWrite's loop head: take the next block's data; a partial block goes to
\* the read of its read-modify-write, a full one straight to its write.
doWriteLoop(t) ==
    IF t.blocks = <<>> THEN doWriteReturn(t, OK)
    ELSE LET b == Head(t.blocks)
         IN  [t EXCEPT !.pc = IF IsPartial(b) THEN "rmwRead" ELSE "blockWrite",
                       !.blockData = Take(t.buf, b.Length),
                       !.buf = Drop(t.buf, b.Length)]

doWriteEnter(t, data, off, caller) ==
    doWriteLoop([t EXCEPT !.caller = caller, !.blocks = SplitRange(off, Len(data)),
                          !.buf = data, !.written = 0, !.blockData = <<>>])

\* Truncate's loop over the blocks a growing file gains.
growLoop(t) ==
    IF t.tblocks = <<>> THEN Return(t, OK, 0, <<>>)
    ELSE LET b == Head(t.tblocks)
         IN  IF IsPartial(b)
             THEN doWriteEnter(t, Zeros(b.Length), BlockPlaintextOff(b) + b.Skip, "grow")
             ELSE [t EXCEPT !.pc = "growFtruncate"]

\* doWrite returns (written, status) to whoever called it.
doWriteReturn(t, status) ==
    CASE t.caller = "zeroPad" ->
            IF status # OK THEN Return(t, status, 0, <<>>)
            ELSE doWriteEnter(t, t.data, t.off, "Write")
      [] t.caller = "Write" -> Return(t, status, t.written, <<>>)
      [] t.caller = "grow" ->
            IF status # OK THEN Return(t, status, 0, <<>>)
            ELSE growLoop([t EXCEPT !.tblocks = Tail(t.tblocks)])
      [] OTHER -> Return(t, status, 0, <<>>)

\* ---------------------------------------------------- file I/O actions ----

MaxLen == 2 * PlainBS
\* Write buffers: of every length, alternating bytes starting with 0 or with 1.
DataSeqs == {[i \in 1..n |-> (i + v) % ByteMod] : n \in 0..MaxLen, v \in Bytes}
\* What the two threads of a concurrent run write, and the files they start on.
ConcData == {<<1>>, <<1, 1>>, <<>>}
ConcOffs == 0..(PlainBS + 1)

\* Any syscall on the backing file may fail: fstat and pread with ENOMEM,
\* pwrite and ftruncate with ENOSPC.  A failed pwrite writes nothing.  The
\* concurrent runs are about the interleavings and inject no failure.
Fail == IF conc THEN {FALSE} ELSE BOOLEAN
\* The random source: one nonce value is enough where calls run one by one.
Random == IF conc THEN Nonces ELSE {1}
ENOSPC == "ENOSPC"
\* The values Chmod, Chown and Utimens set; the file starts with 0.
AttrVals == {1}
ENOMEM == "ENOMEM"

MidCall(t) == t.pc \notin {"idle", "ret"}

\* Thread p may issue a call: it runs none, and the run has calls left.
CanCall(p) ==
    /\ ~MidCall(th[p])
    /\ th[p].pc = "idle"
    /\ conc \/ p = 1

\* Thread p moves to t.
Move(p, t) ==
    LET begins == ~MidCall(th[p])
    IN  /\ th' = [th EXCEPT ![p] = t]
        /\ pre' = IF begins THEN [pre EXCEPT ![p] = backing] ELSE pre
        /\ solo' = [q \in Procs |->
                       IF q # p THEN FALSE
                       ELSE IF begins THEN \A r \in Procs \ {p} : ~MidCall(th[r])
                       ELSE solo[p]]
        /\ UNCHANGED <<writeOnly, file0, conc>>
        /\ UNCHANGED <<cvars, svars>>

\* Thread p moves to t in a step that leaves the descriptor open or closed as
\* it is and the file's attributes alone.
Step(p, t) ==
    /\ Move(p, t)
    /\ UNCHANGED <<fdClosed, attrs, dupFds>>

\* A syscall on a closed descriptor fails with EBADF whatever else could fail.
Errno(e) == IF fdClosed THEN EBADF ELSE e

\* doRead on the handle: ReadAt on a closed descriptor fails, unless the
\* buffer is empty and no pread is issued.
doReadFd(off, length) ==
    IF fdClosed /\ CiphertextRange(off, length).alignedLength > 0
    THEN [status |-> EBADF, out |-> <<>>]
    ELSE doRead(backing, off, length)

\* The handler has returned to the FUSE server; in a concurrent run the
\* thread issues no second call.
Done(p) ==
    /\ th[p].pc = "ret"
    /\ th' = [th EXCEPT ![p] = IF conc THEN [Idle EXCEPT !.pc = "exit"] ELSE Idle]
    /\ pre' = [pre EXCEPT ![p] = <<>>]
    /\ solo' = [solo EXCEPT ![p] = TRUE]
    /\ UNCHANGED <<backing, writeOnly, file0, conc, fdClosed, attrs, dupFds>>
    /\ UNCHANGED <<cvars, svars>>

Call(name, data, off, len) ==
    [Idle EXCEPT !.name = name, !.data = data, !.off = off, !.len = len]

\* Write that never zero-pads the old last block.
WriteNoPad(p) ==
    \E data \in (IF conc THEN ConcData ELSE DataSeqs),
       off \in (IF conc THEN ConcOffs ELSE 0..MaxPlain), fail \in Fail :
        /\ CanCall(p)
        /\ off + Len(data) <= MaxPlain
        /\ LET t == Call("Write", data, off, Len(data))
           IN  Step(p, IF fail \/ fdClosed THEN Return(t, Errno(ENOMEM), 0, <<>>)
                       ELSE doWriteEnter(t, data, off, "Write"))
        /\ UNCHANGED backing

\* Write, up to its first syscall after fstat: stat the file, zero-pad if the
\* write would leave a hole, then doWrite.
Write(p) ==
    \E data \in (IF conc THEN ConcData ELSE DataSeqs),
       off \in (IF conc THEN ConcOffs ELSE 0..MaxPlain), fail \in Fail :
        /\ CanCall(p)
        /\ off + Len(data) <= MaxPlain
        /\ LET t == Call("Write", data, off, Len(data))
               plainSize == PlainSize(Len(backing))
           IN  Step(p, IF fail \/ fdClosed THEN Return(t, Errno(ENOMEM), 0, <<>>)
                       ELSE IF createsHole(plainSize, off)
                            THEN doWriteEnter(t, zeroPadData(plainSize), plainSize, "zeroPad")
                            ELSE doWriteEnter(t, data, off, "Write"))
        /\ UNCHANGED backing

\* doWrite whose read-modify-write read is refused on a write-only handle, as
\* Read is.
RmwReadChecksWriteOnly(p) ==
    \E fail \in Fail :
        /\ th[p].pc = "rmwRead"
        /\ LET t == th[p]
               b == Head(t.blocks)
               r == doRead(backing, BlockPlaintextOff(b), PlainBS)
           IN  Step(p, IF writeOnly THEN doWriteReturn(t, EBADF)
                       ELSE IF fail \/ fdClosed THEN doWriteReturn(t, Errno(ENOMEM))
                       ELSE IF r.status # OK THEN doWriteReturn(t, r.status)
                       ELSE [t EXCEPT !.pc = "blockWrite",
                                      !.blockData = MergeBlocks(r.out, t.blockData, b.Skip)])
        /\ UNCHANGED backing

\* doWrite writing a partial block without merging it into the old block.
RmwReadNoMerge(p) ==
    \E fail \in Fail :
        /\ th[p].pc = "rmwRead"
        /\ LET t == th[p]
               b == Head(t.blocks)
               r == doRead(backing, BlockPlaintextOff(b), PlainBS)
           IN  Step(p, IF fail \/ fdClosed THEN doWriteReturn(t, Errno(ENOMEM))
                       ELSE IF r.status # OK THEN doWriteReturn(t, r.status)
                       ELSE [t EXCEPT !.pc = "blockWrite"])
        /\ UNCHANGED backing

\* doWrite, the read of a read-modify-write: read the block, merge.
RmwRead(p) ==
    \E fail \in Fail :
        /\ th[p].pc = "rmwRead"
        /\ LET t == th[p]
               b == Head(t.blocks)
               r == doRead(backing, BlockPlaintextOff(b), PlainBS)
           IN  Step(p, IF fail \/ fdClosed THEN doWriteReturn(t, Errno(ENOMEM))
                       ELSE IF r.status # OK THEN doWriteReturn(t, r.status)
                       ELSE [t EXCEPT !.pc = "blockWrite",
                                      !.blockData = MergeBlocks(r.out, t.blockData, b.Skip)])
        /\ UNCHANGED backing

\* doWrite counting the block whose pwrite failed as written.
BlockWriteCountsFailed(p) ==
    \E fail \in Fail, nonce \in Random :
        /\ th[p].pc = "blockWrite"
        /\ LET t == th[p]
               b == Head(t.blocks)
               blockData == EncryptBlock(t.blockData, b.BlockNo, nonce)
           IN  IF fail \/ fdClosed
               THEN /\ Step(p, doWriteReturn([t EXCEPT !.written = t.written + b.Length],
                                             Errno(ENOSPC)))
                    /\ UNCHANGED backing
               ELSE /\ backing' = WriteAt(backing, blockData, BlockCiphertextOff(b))
                    /\ Step(p, doWriteLoop([t EXCEPT !.written = t.written + b.Length,
                                                      !.blocks = Tail(t.blocks),
                                                      !.blockData = <<>>]))

\* doWrite writing a block with two pwrites: nonce and payload, then the
\* whole block with its tag.
BlockWriteTorn(p) ==
    \E fail \in Fail, nonce \in Random :
        /\ th[p].pc = "blockWrite"
        /\ LET t == th[p]
               b == Head(t.blocks)
               blockData == IF t.from = "torn" THEN t.blockData
                            ELSE EncryptBlock(t.blockData, b.BlockNo, nonce)
           IN  IF fail \/ fdClosed
               THEN /\ Step(p, doWriteReturn(t, Errno(ENOSPC)))
                    /\ UNCHANGED backing
               ELSE IF t.from # "torn"
               THEN /\ backing' = WriteAt(backing, Take(blockData, Len(blockData) - TagLen),
                                          BlockCiphertextOff(b))
                    /\ Step(p, [t EXCEPT !.from = "torn", !.blockData = blockData])
               ELSE /\ backing' = WriteAt(backing, blockData, BlockCiphertextOff(b))
                    /\ Step(p, doWriteLoop([t EXCEPT !.from = "",
                                                      !.written = t.written + b.Length,
                                                      !.blocks = Tail(t.blocks),
                                                      !.blockData = <<>>]))

\* doWrite, the write of one block: encrypt under a fresh nonce, pwrite at the
\* block's ciphertext offset, go on to the next block.
BlockWrite(p) ==
    \E fail \in Fail, nonce \in Random :
        /\ th[p].pc = "blockWrite"
        /\ LET t == th[p]
               b == Head(t.blocks)
               blockData == EncryptBlock(t.blockData, b.BlockNo, nonce)
           IN  IF fail \/ fdClosed
               THEN /\ Step(p, doWriteReturn(t, Errno(ENOSPC)))
                    /\ UNCHANGED backing
               ELSE /\ backing' = WriteAt(backing, blockData, BlockCiphertextOff(b))
                    /\ Step(p, doWriteLoop([t EXCEPT !.written = t.written + b.Length,
                                                      !.blocks = Tail(t.blocks),
                                                      !.blockData = <<>>]))

\* Read that takes a result shorter than the buffer for an I/O error.
ReadShortFails(p) ==
    \E off \in (IF conc THEN ConcOffs ELSE 0..MaxPlain),
       len \in (IF conc THEN {1, MaxLen} ELSE 0..MaxLen), fail \in Fail :
        /\ CanCall(p)
        /\ ~(fail /\ writeOnly)
        /\ LET t == Call("Read", <<>>, off, len)
               r == doReadFd(off, len)
           IN  Step(p, IF writeOnly THEN Return(t, EBADF, 0, <<>>)
                       ELSE IF fail THEN Return(t, ENOMEM, 0, <<>>)
                       ELSE IF Len(r.out) < len THEN Return(t, EIO, 0, <<>>)
                       ELSE Return(t, r.status, Len(r.out), r.out))
        /\ UNCHANGED backing

\* Read: refused on a write-only handle, else doRead.
Read(p) ==
    \E off \in (IF conc THEN ConcOffs ELSE 0..MaxPlain),
       len \in (IF conc THEN {1, MaxLen} ELSE 0..MaxLen), fail \in Fail :
        /\ CanCall(p)
        /\ ~(fail /\ writeOnly)
        /\ LET t == Call("Read", <<>>, off, len)
               r == doReadFd(off, len)
           IN  Step(p, IF writeOnly THEN Return(t, EBADF, 0, <<>>)
                       ELSE IF fail THEN Return(t, ENOMEM, 0, <<>>)
                       ELSE Return(t, r.status, Len(r.out), r.out))
        /\ UNCHANGED backing

\* Truncate that takes a shrink to a block boundary for done.
TruncateSkipsAligned(p) ==
    \E newSize \in (IF conc THEN ConcOffs ELSE 0..MaxPlain), fail \in Fail :
        /\ CanCall(p)
        /\ LET t == Call("Truncate", <<>>, newSize, 0)
               oldSize == PlainSize(Len(backing))
               lastBlockLen == newSize - BlockNoPlainOff(newSize) * PlainBS
           IN  Step(p, IF fail \/ fdClosed THEN Return(t, Errno(ENOMEM), 0, <<>>)
                       ELSE IF newSize > oldSize
                            THEN growLoop([t EXCEPT !.tblocks =
                                               SplitRange(oldSize, newSize - oldSize)])
                       ELSE IF lastBlockLen > 0 THEN [t EXCEPT !.pc = "shrinkRead"]
                       ELSE Return(t, OK, 0, <<>>))
        /\ UNCHANGED backing

\* Truncate, up to its first syscall after fstat.
Truncate(p) ==
    \E newSize \in (IF conc THEN ConcOffs ELSE 0..MaxPlain), fail \in Fail :
        /\ CanCall(p)
        /\ LET t == Call("Truncate", <<>>, newSize, 0)
               oldSize == PlainSize(Len(backing))
               lastBlockLen == newSize - BlockNoPlainOff(newSize) * PlainBS
           IN  Step(p, IF fail \/ fdClosed THEN Return(t, Errno(ENOMEM), 0, <<>>)
                       ELSE IF newSize > oldSize
                            THEN growLoop([t EXCEPT !.tblocks =
                                               SplitRange(oldSize, newSize - oldSize)])
                       ELSE IF lastBlockLen > 0 THEN [t EXCEPT !.pc = "shrinkRead"]
                       ELSE [t EXCEPT !.pc = "shrinkFtruncate"])
        /\ UNCHANGED backing

\* Truncate growing that ftruncates to the start of the full block.
GrowFtruncateShort(p) ==
    \E fail \in Fail :
        /\ th[p].pc = "growFtruncate"
        /\ LET t == th[p]
               b == Head(t.tblocks)
           IN  IF fail \/ fdClosed
               THEN /\ Step(p, Return(t, Errno(ENOSPC), 0, <<>>))
                    /\ UNCHANGED backing
               ELSE /\ backing' = Ftruncate(backing, BlockCiphertextOff(b))
                    /\ Step(p, growLoop([t EXCEPT !.tblocks = Tail(t.tblocks)]))

\* Truncate growing, a full block: ftruncate the backing file to its end.
GrowFtruncate(p) ==
    \E fail \in Fail :
        /\ th[p].pc = "growFtruncate"
        /\ LET t == th[p]
               b == Head(t.tblocks)
           IN  IF fail \/ fdClosed
               THEN /\ Step(p, Return(t, Errno(ENOSPC), 0, <<>>))
                    /\ UNCHANGED backing
               ELSE /\ backing' = Ftruncate(backing, BlockCiphertextOff(b) + BlockCiphertextLen(b))
                    /\ Step(p, growLoop([t EXCEPT !.tblocks = Tail(t.tblocks)]))

\* Truncate shrinking that goes on after a failed read of the last block.
ShrinkReadIgnoresError(p) ==
    \E fail \in Fail :
        /\ th[p].pc = "shrinkRead"
        /\ LET t == th[p]
               plainOff == BlockNoPlainOff(t.off) * PlainBS
               r == doRead(backing, plainOff, t.off - plainOff)
           IN  Step(p, IF fail \/ r.status # OK
                       THEN [t EXCEPT !.pc = "shrinkFtruncate", !.tdata = <<>>]
                       ELSE [t EXCEPT !.pc = "shrinkFtruncate", !.tdata = r.out])
        /\ UNCHANGED backing

\* Truncate shrinking: read what stays of the new last block.
ShrinkRead(p) ==
    \E fail \in Fail :
        /\ th[p].pc = "shrinkRead"
        /\ LET t == th[p]
               plainOff == BlockNoPlainOff(t.off) * PlainBS
               r == doRead(backing, plainOff, t.off - plainOff)
           IN  Step(p, IF fail \/ fdClosed THEN Return(t, Errno(ENOMEM), 0, <<>>)
                       ELSE IF r.status # OK THEN Return(t, r.status, 0, <<>>)
                       ELSE [t EXCEPT !.pc = "shrinkFtruncate", !.tdata = r.out])
        /\ UNCHANGED backing

\* Truncate shrinking: ftruncate to the start of the new last block, then
\* write what was read of it back.
ShrinkFtruncate(p) ==
    \E fail \in Fail :
        /\ th[p].pc = "shrinkFtruncate"
        /\ LET t == th[p]
               blockNo == BlockNoPlainOff(t.off)
               cipherOff == blockNo * CipherBS
               plainOff == blockNo * PlainBS
               lastBlockLen == t.off - plainOff
           IN  IF fail \/ fdClosed
               THEN /\ Step(p, Return(t, Errno(ENOSPC), 0, <<>>))
                    /\ UNCHANGED backing
               ELSE /\ backing' = Ftruncate(backing, cipherOff)
                    /\ Step(p, IF lastBlockLen > 0
                                THEN doWriteEnter(t, t.tdata, plainOff, "shrink")
                                ELSE Return(t, OK, 0, <<>>))

\* GetAttr: fstat, and the size translated to plaintext.
GetAttr(p) ==
    \E fail \in Fail :
        /\ CanCall(p)
        /\ LET t == Call("GetAttr", <<>>, 0, 0)
           IN  Step(p, IF fail \/ fdClosed THEN Return(t, Errno(ENOMEM), 0, <<>>)
                       ELSE Return(t, OK, PlainSize(Len(backing)), <<>>))
        /\ UNCHANGED backing

\* Release: close the descriptor.  Close's error is dropped, the call has no
\* status.
Release(p) ==
    /\ CanCall(p)
    /\ Move(p, Return(Call("Release", <<>>, 0, 0), OK, 0, <<>>))
    /\ fdClosed' = TRUE
    /\ UNCHANGED <<backing, attrs, dupFds>>

\* Flush, up to its Dup of the descriptor under the lock.
Flush(p) ==
    \E fail \in Fail :
        /\ CanCall(p)
        /\ LET t == Call("Flush", <<>>, 0, 0)
           IN  IF fail \/ fdClosed
               THEN /\ Move(p, Return(t, Errno(ENOMEM), 0, <<>>))
                    /\ UNCHANGED dupFds
               ELSE /\ Move(p, [t EXCEPT !.pc = "flushClose"])
                    /\ dupFds' = dupFds + 1
        /\ UNCHANGED <<backing, fdClosed, attrs>>

\* A Flush that closes the descriptor of the handle and not the duplicate.
FlushCloseHandle(p) ==
    \E fail \in Fail :
        /\ th[p].pc = "flushClose"
        /\ Move(p, Return(th[p], IF fail THEN EIO ELSE OK, 0, <<>>))
        /\ fdClosed' = TRUE
        /\ UNCHANGED <<backing, attrs, dupFds>>

\* Flush: syscall.Close of the duplicate, which is closed whatever Close
\* returns.
FlushClose(p) ==
    \E fail \in Fail :
        /\ th[p].pc = "flushClose"
        /\ Move(p, Return(th[p], IF fail THEN EIO ELSE OK, 0, <<>>))
        /\ dupFds' = dupFds - 1
        /\ UNCHANGED <<backing, fdClosed, attrs>>

Fsync(p) ==
    \E fail \in Fail :
        /\ CanCall(p)
        /\ LET t == Call("Fsync", <<>>, 0, 0)
           IN  Step(p, IF fail \/ fdClosed THEN Return(t, Errno(EIO), 0, <<>>)
                       ELSE Return(t, OK, 0, <<>>))
        /\ UNCHANGED backing

\* Chmod, Chown, Utimens: one syscall each on the descriptor; it sets the
\* mode, the owner or the times of the backing file, or fails.
SetAttr(p, name, attr, val, fail) ==
    /\ CanCall(p)
    /\ Move(p, IF fail \/ fdClosed
               THEN Return(Call(name, <<>>, val, 0), Errno(ENOMEM), 0, <<>>)
               ELSE Return(Call(name, <<>>, val, 0), OK, 0, <<>>))
    /\ attrs' = IF fail \/ fdClosed THEN attrs ELSE [attrs EXCEPT ![attr] = val]
    /\ UNCHANGED <<backing, fdClosed, dupFds>>

Chmod(p) == \E mode \in AttrVals, fail \in Fail : SetAttr(p, "Chmod", "mode", mode, fail)

Chown(p) == \E uid \in AttrVals, fail \in Fail : SetAttr(p, "Chown", "owner", uid, fail)

Utimens(p) == \E m \in AttrVals, fail \in Fail : SetAttr(p, "Utimens", "mtime", m, fail)

FileNext ==
    \E p \in Procs :
        \/ Write(p) \/ RmwRead(p) \/ BlockWrite(p)
        \/ Read(p)
        \/ Truncate(p) \/ GrowFtruncate(p) \/ ShrinkRead(p) \/ ShrinkFtruncate(p)
        \/ GetAttr(p)
        \/ Done(p)

\* The calls on a handle, Release and the calls that do not touch the data
\* included.
HandleNext ==
    \E p \in Procs :
        \/ Write(p) \/ RmwRead(p) \/ BlockWrite(p)
        \/ Read(p)
        \/ Truncate(p) \/ GrowFtruncate(p) \/ ShrinkRead(p) \/ ShrinkFtruncate(p)
        \/ GetAttr(p)
        \/ Release(p) \/ Flush(p) \/ FlushClose(p) \/ Fsync(p)
        \/ Chmod(p) \/ Chown(p) \/ Utimens(p)
        \/ Done(p)

\* A file as one Write of a plaintext to an empty file leaves it.
RECURSIVE EncryptBlocks(_, _)
EncryptBlocks(plaintext, blockNo) ==
    IF plaintext = <<>> THEN <<>>
    ELSE EncryptBlock(Take(plaintext, PlainBS), blockNo, 1)
         \o EncryptBlocks(Drop(plaintext, PlainBS), blockNo + 1)

ConcFiles == {EncryptBlocks(Zeros(n), 0) : n \in 0..(PlainBS + 1)}

FileInit(c, files, flags) ==
    /\ backing \in files
    /\ writeOnly \in flags
    /\ th = [p \in Procs |-> Idle]
    /\ pre = [p \in Procs |-> <<>>]
    /\ solo = [p \in Procs |-> TRUE]
    /\ file0 = backing
    /\ conc = c
    /\ fdClosed = FALSE
    /\ attrs = [mode |-> 0, owner |-> 0, mtime |-> 0]
    /\ dupFds = 0

\* ---------------------------------------------------------- dirCache ----

dirCacheSize == 3
DirIVLen == 16
\* Descriptors 0, 1 and 2 are taken before the cache exists.
FirstFd == 3
\* How many descriptors the callers hold at a time.
MaxCallerFds == 1
MaxFd == FirstFd + dirCacheSize + MaxCallerFds - 1
FdNums == FirstFd..MaxFd
Dirs == {"dirA", "dirB"}
Paths == {"a", "b"}
IV(k) == [i \in 1..DirIVLen |-> k]
IVs == {IV(1), IV(2)}
Slots == 0..(dirCacheSize - 1)

NoFile == [dir |-> "", owner |-> ""]
ZeroEntry == [dirRelPath |-> "", fd |-> 0, iv |-> <<>>]
ClearedEntry == [dirRelPath |-> "", fd |-> -1, iv |-> <<>>]
NoRes == [op |-> "", path |-> "", fd |-> 0, iv |-> <<>>, dupFailed |-> FALSE]
NoStore == [valid |-> FALSE, dir |-> "", iv |-> <<>>, since |-> 0]

FreeFds(table) == {n \in FdNums : table[n] = NoFile}
LowestFree(table) == CHOOSE n \in FreeFds(table) : \A m \in FreeFds(table) : n <= m
CallerFds == {n \in FdNums : fdTable[n].owner = "caller"}

\* A Dup that hands back the descriptor it was given.
DupSame(table, fd) == fd

\* syscall.Dup, when it succeeds: the lowest free descriptor.
Dup(table, fd) == LowestFree(table)

\* An entry's Clear that forgets to close the descriptor.
EntryCloseLeaks(table, e) == table

\* dirCacheEntryStruct.Clear, its effect on the descriptor table.
EntryClose(table, e) ==
    IF e.fd > 0 THEN [table EXCEPT ![e.fd] = NoFile] ELSE table

\* The Close of an entry's Clear hits a descriptor that is not the cache's:
\* one that is closed already, or one a caller got under that number since.
CloseFails(table, e) == e.fd > 0 /\ table[e.fd].owner # "cache"

\* A caller opens a directory.
OpenDir ==
    \E dir \in Dirs :
        /\ ~panicked
        /\ Cardinality(CallerFds) < MaxCallerFds
        /\ fdTable' = [fdTable EXCEPT ![LowestFree(fdTable)] = [dir |-> dir, owner |-> "caller"]]
        /\ res' = NoRes
        /\ UNCHANGED <<entries, nextIndex, expireThreadRunning, panicked, stored>>
        /\ evicted' = 0
        /\ UNCHANGED <<closeFault, expireThreads>>
        /\ UNCHANGED <<fvars, svars>>

\* A caller closes a descriptor it holds: its own copy after Store, or the
\* one Lookup returned.
CloseFd ==
    \E fd \in CallerFds :
        /\ ~panicked
        /\ fdTable' = [fdTable EXCEPT ![fd] = NoFile]
        /\ res' = NoRes
        /\ UNCHANGED <<entries, nextIndex, expireThreadRunning, panicked, stored>>
        /\ evicted' = 0
        /\ UNCHANGED <<closeFault, expireThreads>>
        /\ UNCHANGED <<fvars, svars>>

\* A replacement order that skips a slot.
NextSlotSkips(i) == (i + 2) % dirCacheSize

\* The slot after slot i in the replacement order.
NextSlot(i) == (i + 1) % dirCacheSize

\* A sanity check that forgets the length of the IV.
SanityCheckFdOnly(fd, iv) == fd <= 0

\* The sanity check of Store and of Lookup, TRUE when it fails.
SanityCheckFails(fd, iv) == fd <= 0 \/ Len(iv) # DirIVLen

\* A Store that never starts the expire thread.
NeverStartExpireThread(running) == running

\* Store starts the expire thread unless it is running.
StartExpireThread(running) == TRUE

\* How many expire threads the model can tell apart.
MaxExpireThreads == 2

\* A Store that starts an expire thread whatever the flag says.
GoExpireThreadAlways(running, n) == n + 1

\* go d.expireThread(), reached when the flag is not set: the number of
\* expire threads after a Store whose Dup succeeded.
GoExpireThread(running, n) == IF running THEN n ELSE n + 1

Store ==
    \E dirRelPath \in Paths, fd \in CallerFds \cup {-1}, iv \in IVs \cup {<<>>},
       dupFails \in BOOLEAN :
        /\ ~panicked
        /\ expireThreads < MaxExpireThreads
        /\ res' = NoRes
        /\ UNCHANGED <<fvars, svars>>
        /\ IF SanityCheckFails(fd, iv)
           THEN /\ panicked' = TRUE
                /\ UNCHANGED <<entries, nextIndex, expireThreadRunning, fdTable, stored>>
                /\ evicted' = 0
                /\ UNCHANGED <<closeFault, expireThreads>>
           ELSE LET closed == EntryClose(fdTable, entries[nextIndex])
                    dupOK == ~dupFails
                    fd2 == Dup(closed, fd)
                IN  /\ nextIndex' = NextSlot(nextIndex)
                    /\ entries' = [entries EXCEPT ![nextIndex] =
                                      IF dupOK
                                      THEN [dirRelPath |-> dirRelPath, fd |-> fd2, iv |-> iv]
                                      ELSE ClearedEntry]
                    /\ fdTable' = IF dupOK
                                  THEN [closed EXCEPT ![fd2] =
                                           [dir |-> closed[fd].dir, owner |-> "cache"]]
                                  ELSE closed
                    /\ expireThreadRunning' = IF dupOK THEN StartExpireThread(expireThreadRunning)
                                               ELSE expireThreadRunning
                    /\ expireThreads' = IF dupOK
                                         THEN GoExpireThread(expireThreadRunning, expireThreads)
                                         ELSE expireThreads
                    /\ closeFault' = (closeFault \/ CloseFails(fdTable, entries[nextIndex]))
                    /\ evicted' = IF entries[nextIndex].fd > 0 THEN entries[nextIndex].fd
                                   ELSE 0
                    /\ stored' = [q \in Paths |->
                                     IF q = dirRelPath /\ dupOK
                                     THEN [valid |-> TRUE, dir |-> closed[fd].dir,
                                           iv |-> iv, since |-> 0]
                                     ELSE IF stored[q].valid
                                             /\ stored[q].since + 1 < dirCacheSize
                                     THEN [stored[q] EXCEPT !.since = stored[q].since + 1]
                                     ELSE NoStore]
                    /\ UNCHANGED panicked

Lookup ==
    \E dirRelPath \in Paths, dupFails \in BOOLEAN :
        LET found == {i \in Slots : entries[i].fd > 0 /\ entries[i].dirRelPath = dirRelPath}
            i == CHOOSE j \in found : \A k \in found : j <= k
            e == entries[i]
            fd == Dup(fdTable, e.fd)
        IN  /\ ~panicked
            /\ Cardinality(CallerFds) < MaxCallerFds
            /\ found = {} => ~dupFails
            /\ UNCHANGED <<entries, nextIndex, expireThreadRunning, stored>>
            /\ evicted' = 0
            /\ UNCHANGED <<closeFault, expireThreads>>
            /\ UNCHANGED <<fvars, svars>>
            /\ IF found = {}
               THEN /\ res' = [NoRes EXCEPT !.op = "Lookup", !.path = dirRelPath, !.fd = -1]
                    /\ UNCHANGED <<fdTable, panicked>>
               ELSE IF dupFails
               THEN /\ res' = [NoRes EXCEPT !.op = "Lookup", !.path = dirRelPath, !.fd = -1,
                                            !.dupFailed = TRUE]
                    /\ UNCHANGED <<fdTable, panicked>>
               ELSE /\ fdTable' = [fdTable EXCEPT ![fd] =
                                      [dir |-> fdTable[e.fd].dir, owner |-> "caller"]]
                    /\ panicked' = SanityCheckFails(fd, e.iv)
                    /\ res' = [NoRes EXCEPT !.op = "Lookup", !.path = dirRelPath, !.fd = fd,
                                            !.iv = e.iv]

RECURSIVE ClearFrom(_, _, _)
ClearFrom(table, es, i) ==
    IF i = dirCacheSize THEN table
    ELSE ClearFrom(EntryClose(table, es[i]), es, i + 1)

\* One of the Closes of a Clear over the slots from i on hits a descriptor
\* that is not the cache's.
RECURSIVE ClearFaults(_, _, _)
ClearFaults(table, es, i) ==
    IF i = dirCacheSize THEN FALSE
    ELSE \/ CloseFails(table, es[i])
         \/ ClearFaults(EntryClose(table, es[i]), es, i + 1)

\* A Clear that closes the descriptors and leaves the slots as they were.
ClearAllTorn ==
    /\ fdTable' = ClearFrom(fdTable, entries, 0)
    /\ stored' = [q \in Paths |-> NoStore]
    /\ closeFault' = (closeFault \/ ClearFaults(fdTable, entries, 0))
    /\ evicted' = 0
    /\ UNCHANGED <<entries, nextIndex, expireThreadRunning, panicked, expireThreads>>
    /\ UNCHANGED <<fvars, svars>>

\* A Clear that stops after the first slot.
ClearAllFirstOnly ==
    /\ fdTable' = EntryClose(fdTable, entries[0])
    /\ entries' = [entries EXCEPT ![0] = ClearedEntry]
    /\ stored' = [q \in Paths |-> NoStore]
    /\ closeFault' = (closeFault \/ CloseFails(fdTable, entries[0]))
    /\ evicted' = 0
    /\ UNCHANGED <<nextIndex, expireThreadRunning, panicked, expireThreads>>
    /\ UNCHANGED <<fvars, svars>>

\* dirCacheStruct.Clear: every entry closed and emptied.
ClearAll ==
    /\ fdTable' = ClearFrom(fdTable, entries, 0)
    /\ entries' = [i \in Slots |-> ClearedEntry]
    /\ stored' = [q \in Paths |-> NoStore]
    /\ closeFault' = (closeFault \/ ClearFaults(fdTable, entries, 0))
    /\ evicted' = 0
    /\ UNCHANGED <<nextIndex, expireThreadRunning, panicked, expireThreads>>
    /\ UNCHANGED <<fvars, svars>>

\* A caller clears the cache.
Clear ==
    /\ ~panicked
    /\ ClearAll
    /\ res' = NoRes

\* The expire thread wakes up after its sleep.
expireThread ==
    /\ ~panicked
    /\ expireThreadRunning
    /\ ClearAll
    /\ res' = [NoRes EXCEPT !.op = "expireThread"]

CacheNext ==
    \/ OpenDir \/ CloseFd
    \/ Store \/ Lookup
    \/ Clear \/ expireThread

CacheInit ==
    /\ entries = [i \in Slots |-> ZeroEntry]
    /\ nextIndex = 0
    /\ expireThreadRunning = FALSE
    /\ fdTable = [n \in FdNums |-> NoFile]
    /\ panicked = FALSE
    /\ res = NoRes
    /\ stored = [q \in Paths |-> NoStore]
    /\ closeFault = FALSE
    /\ evicted = 0
    /\ expireThreads = 0

\* ------------------------------------------------------ syscallcompat ----

EPERM == "EPERM"
EACCES == "EACCES"
Uids == {0, 1}
Gids == {0, 1}
UserCalls == {"OpenatUser", "MknodatUser", "SymlinkatUser", "MkdiratUser"}

\* A nil *fuse.Context, and the contexts with an owner.
NilContext == [nil |-> TRUE, uid |-> 0, gid |-> 0]
Contexts == {NilContext} \cup {[nil |-> FALSE, uid |-> u, gid |-> g] : u \in Uids, g \in Gids}

\* The thread that runs the impersonating calls.  The process runs as root:
\* the real ids are 0 and stay 0, since every call passes -1 for them.
ImpInit ==
    imp = [pc |-> "idle", name |-> "", context |-> NilContext, locked |-> FALSE,
           euid |-> 0, suid |-> 0, egid |-> 0, sgid |-> 0,
           deferred |-> <<>>, err |-> "",
           entryEuid |-> 0, entryEgid |-> 0,
           ran |-> FALSE, ranEuid |-> 0, ranEgid |-> 0,
           restoreFailed |-> FALSE]

\* setreuid(-1, id) and setregid(-1, id): allowed with the capability (an
\* effective uid of 0), or when id is the real (0), effective or saved id.
MaySetId(id, eff, saved) == imp.euid = 0 \/ id \in {0, eff, saved}
\* The saved id follows an effective id that differs from the real id.
SavedAfter(id, saved) == IF id # 0 THEN id ELSE saved

ImpStep(new) ==
    /\ imp' = new
    /\ UNCHANGED <<prealloc, diriv>>
    /\ UNCHANGED <<fvars, cvars>>

\* Entry of an impersonating call: with a context the thread is pinned and
\* the unpin deferred.
UserCall(name) ==
    \E context \in Contexts :
        /\ imp.pc = "idle"
        /\ ImpStep([imp EXCEPT !.name = name, !.context = context,
                               !.pc = IF context.nil THEN "syscall" ELSE "setregid",
                               !.locked = ~context.nil,
                               !.deferred = IF context.nil THEN <<>> ELSE <<"UnlockOSThread">>,
                               !.err = "", !.ran = FALSE, !.ranEuid = 0, !.ranEgid = 0,
                               !.entryEuid = imp.euid, !.entryEgid = imp.egid,
                               !.restoreFailed = FALSE])

OpenatUser == UserCall("OpenatUser")
MknodatUser == UserCall("MknodatUser")
SymlinkatUser == UserCall("SymlinkatUser")
MkdiratUser == UserCall("MkdiratUser")

\* syscall.Setregid(-1, context.Owner.Gid); on success its undoing is deferred.
Setregid ==
    \E fail \in BOOLEAN :
        /\ imp.pc = "setregid"
        /\ IF fail \/ ~MaySetId(imp.context.gid, imp.egid, imp.sgid)
           THEN ImpStep([imp EXCEPT !.pc = "defers", !.err = EPERM])
           ELSE ImpStep([imp EXCEPT !.pc = "setreuid", !.egid = imp.context.gid,
                                   !.sgid = SavedAfter(imp.context.gid, imp.sgid),
                                   !.deferred = Append(imp.deferred, "Setregid")])

\* syscall.Setreuid(-1, context.Owner.Uid); on success its undoing is deferred.
Setreuid ==
    \E fail \in BOOLEAN :
        /\ imp.pc = "setreuid"
        /\ IF fail \/ ~MaySetId(imp.context.uid, imp.euid, imp.suid)
           THEN ImpStep([imp EXCEPT !.pc = "defers", !.err = EPERM])
           ELSE ImpStep([imp EXCEPT !.pc = "syscall", !.euid = imp.context.uid,
                                   !.suid = SavedAfter(imp.context.uid, imp.suid),
                                   !.deferred = Append(imp.deferred, "Setreuid")])

\* Openat, Mknodat, Symlinkat or Mkdirat, run by the thread as it is.
Syscall ==
    \E fail \in BOOLEAN :
        /\ imp.pc = "syscall"
        /\ ImpStep([imp EXCEPT !.pc = "defers", !.err = IF fail THEN EACCES ELSE OK,
                               !.ran = TRUE, !.ranEuid = imp.euid, !.ranEgid = imp.egid])

\* The deferred calls run last in, first out, and their results are dropped:
\* syscall.Setreuid(-1, 0), syscall.Setregid(-1, 0), runtime.UnlockOSThread().
RunDeferred ==
    \E fail \in BOOLEAN :
        LET n == Len(imp.deferred)
            d == imp.deferred[n]
            rest == SubSeq(imp.deferred, 1, n - 1)
        IN  /\ imp.pc = "defers"
            /\ n > 0
            /\ d = "UnlockOSThread" => ~fail
            /\ CASE d = "UnlockOSThread" ->
                     ImpStep([imp EXCEPT !.deferred = rest, !.locked = FALSE])
                 [] d = "Setreuid" ->
                     IF fail \/ ~MaySetId(0, imp.euid, imp.suid)
                     THEN ImpStep([imp EXCEPT !.deferred = rest, !.restoreFailed = TRUE])
                     ELSE ImpStep([imp EXCEPT !.deferred = rest, !.euid = 0])
                 [] d = "Setregid" ->
                     IF fail \/ ~MaySetId(0, imp.egid, imp.sgid)
                     THEN ImpStep([imp EXCEPT !.deferred = rest, !.restoreFailed = TRUE])
                     ELSE ImpStep([imp EXCEPT !.deferred = rest, !.egid = 0])

\* The call returns to its caller.
UserReturn ==
    /\ imp.pc = "defers"
    /\ imp.deferred = <<>>
    /\ ImpStep([imp EXCEPT !.pc = "ret"])

\* The thread goes on to its next call, as it is.
UserDone ==
    /\ imp.pc = "ret"
    /\ ImpStep([imp EXCEPT !.pc = "idle"])

UserNext ==
    \/ OpenatUser \/ MknodatUser \/ SymlinkatUser \/ MkdiratUser
    \/ Setregid \/ Setreuid \/ Syscall
    \/ RunDeferred \/ UserReturn \/ UserDone

EINTR == "EINTR"
EOPNOTSUPP == "EOPNOTSUPP"
\* What syscall.Fallocate returns.
FallocateResults == {OK, EINTR, EOPNOTSUPP, ENOSPC}
\* How often in a row one call's fallocate is interrupted.
MaxEintr == 2
\* The threads that call EnospcPrealloc.
PreallocProcs == {1, 2}

PreallocIdle == [pc |-> "idle", tries |-> 0, last |-> "", err |-> ""]

\* No call running, preallocWarn not yet done, no warning printed.
PreallocInit ==
    prealloc = [t |-> [p \in PreallocProcs |-> PreallocIdle],
                once |-> FALSE, warnings |-> 0]

PreallocStep(new) ==
    /\ prealloc' = new
    /\ UNCHANGED <<imp, diriv>>
    /\ UNCHANGED <<fvars, cvars>>

\* A warning printed at every EOPNOTSUPP.
WarnEveryTime(once, warnings) == warnings + 1

\* preallocWarn.Do(...): the number of warnings printed so far, after it.
PreallocWarn(once, warnings) == IF once THEN warnings ELSE warnings + 1

\* Entry of EnospcPrealloc.
EnospcPrealloc(p) ==
    /\ prealloc.t[p].pc = "idle"
    /\ PreallocStep([prealloc EXCEPT !.t[p] = [PreallocIdle EXCEPT !.pc = "loop"]])

\* One round of the loop: syscall.Fallocate and what is done with its result.
Fallocate(p) ==
    \E r \in FallocateResults :
        LET c == prealloc.t[p]
        IN  /\ c.pc = "loop"
            /\ r = EINTR => c.tries < MaxEintr
            /\ IF r = EINTR
               THEN PreallocStep([prealloc EXCEPT !.t[p].tries = c.tries + 1,
                                                 !.t[p].last = r])
               ELSE IF r = EOPNOTSUPP
               THEN PreallocStep([prealloc EXCEPT
                        !.t[p] = [c EXCEPT !.pc = "ret", !.last = r, !.err = OK],
                        !.once = TRUE,
                        !.warnings = PreallocWarn(prealloc.once, prealloc.warnings)])
               ELSE PreallocStep([prealloc EXCEPT
                        !.t[p] = [c EXCEPT !.pc = "ret", !.last = r, !.err = r]])

\* The call has returned.
PreallocDone(p) ==
    /\ prealloc.t[p].pc = "ret"
    /\ PreallocStep([prealloc EXCEPT !.t[p].pc = "idle"])

PreallocNext ==
    \E p \in PreallocProcs :
        \/ EnospcPrealloc(p)
        \/ Fallocate(p)
        \/ PreallocDone(p)

\* ----------------------------------------------------- nametransform ----

EEXIST == "EEXIST"
ENOENT == "ENOENT"
\* The permissions WriteDirIVAt creates the file with, 0400.
DirIVMode == 256
\* The longest gocryptfs.diriv another program has left behind.
MaxDirIVFile == DirIVLen + 2

\* A 16-byte value that has zero bytes and is not all zero.
MixedIV == [i \in 1..DirIVLen |-> IF i = DirIVLen THEN 1 ELSE 0]
\* allZeroDirIV
allZeroDirIV == [i \in 1..DirIVLen |-> 0]
\* What cryptocore.RandBytes(DirIVLen) returns: 16 random bytes, which are
\* taken never to be the one all-zero value.
RandBytes == {MixedIV, IV(1), IV(2)}

\* gocryptfs.diriv in the directory: missing, or a file with its bytes, its
\* permissions, whether the running WriteDirIVAt created it, and whether a
\* WriteDirIVAt that returned nil produced it.
NoDirIV == [exists |-> FALSE, data |-> <<>>, mode |-> 0, mine |-> FALSE, good |-> FALSE]
ForeignData ==
    {[i \in 1..n |-> b] : n \in 0..MaxDirIVFile, b \in {0, 1}} \cup {MixedIV}

DirIVInit ==
    diriv = [file |-> NoDirIV, pc |-> "idle", name |-> "", iv |-> <<>>, fds |-> 0,
             err |-> "", out |-> <<>>, entry |-> NoDirIV, unlinkFailed |-> FALSE,
             fault |-> FALSE]

DirIVStep(new) ==
    /\ diriv' = new
    /\ UNCHANGED <<imp, prealloc>>
    /\ UNCHANGED <<fvars, cvars>>

\* Another program leaves a gocryptfs.diriv in the directory.
PutDirIV ==
    \E data \in ForeignData, mode \in {DirIVMode, 420} :
        /\ diriv.pc = "idle"
        /\ DirIVStep([diriv EXCEPT !.file = [exists |-> TRUE, data |-> data,
                                             mode |-> mode, mine |-> FALSE,
                                             good |-> FALSE]])

\* Another program removes gocryptfs.diriv.
RemoveDirIV ==
    /\ diriv.pc = "idle"
    /\ diriv.file.exists
    /\ DirIVStep([diriv EXCEPT !.file = NoDirIV])

\* An Unlinkat that removes nothing.
UnlinkatNever(file, fails) == file

\* syscallcompat.Unlinkat(dirfd, DirIVFilename, 0), its result dropped.
Unlinkat(file, fails) == IF fails THEN file ELSE NoDirIV

\* WriteDirIVAt up to its Openat with O_WRONLY|O_CREATE|O_EXCL and 0400.
WriteDirIVAt ==
    \E iv \in RandBytes, fail \in BOOLEAN :
        LET f == [diriv.file EXCEPT !.mine = FALSE]
            call == [diriv EXCEPT !.name = "WriteDirIVAt", !.iv = iv, !.out = <<>>,
                                  !.entry = f, !.unlinkFailed = FALSE,
                                  !.fault = fail]
        IN  /\ diriv.pc = "idle"
            /\ IF f.exists \/ fail
               THEN DirIVStep([call EXCEPT !.file = f, !.pc = "ret",
                                          !.err = IF f.exists THEN EEXIST ELSE EACCES])
               ELSE DirIVStep([call EXCEPT !.file = [exists |-> TRUE, data |-> <<>>,
                                                    mode |-> DirIVMode, mine |-> TRUE,
                                                    good |-> FALSE],
                                          !.fds = 1, !.pc = "write", !.err = ""])

\* f.Write(iv); when it fails, after any part of iv, the file is closed and
\* unlinked and the error returned.
WriteDirIVAtWrite ==
    \E fail \in BOOLEAN, k \in {0, 1, DirIVLen - 1}, unlinkFails \in BOOLEAN :
        /\ diriv.pc = "write"
        /\ ~fail => (k = 0 /\ ~unlinkFails)
        /\ IF fail
           THEN DirIVStep([diriv EXCEPT
                    !.file = Unlinkat([diriv.file EXCEPT !.data = Take(diriv.iv, k)],
                                      unlinkFails),
                    !.fds = 0, !.pc = "ret", !.err = ENOSPC,
                    !.unlinkFailed = unlinkFails, !.fault = TRUE])
           ELSE DirIVStep([diriv EXCEPT !.file.data = diriv.iv, !.pc = "close"])

\* f.Close(); when it fails the file is unlinked and the error returned.
WriteDirIVAtClose ==
    \E fail \in BOOLEAN, unlinkFails \in BOOLEAN :
        /\ diriv.pc = "close"
        /\ ~fail => ~unlinkFails
        /\ IF fail
           THEN DirIVStep([diriv EXCEPT !.file = Unlinkat(diriv.file, unlinkFails),
                                       !.fds = 0, !.pc = "ret", !.err = EIO,
                                       !.unlinkFailed = unlinkFails, !.fault = TRUE])
           ELSE DirIVStep([diriv EXCEPT !.file.good = TRUE,
                                       !.fds = 0, !.pc = "ret", !.err = OK])

\* ReadDirIVAt up to its Openat with O_RDONLY|O_NOFOLLOW.
ReadDirIVAt ==
    \E fail \in BOOLEAN :
        LET call == [diriv EXCEPT !.name = "ReadDirIVAt", !.iv = <<>>, !.out = <<>>,
                                  !.entry = diriv.file, !.unlinkFailed = FALSE,
                                  !.fault = fail]
        IN  /\ diriv.pc = "idle"
            /\ IF ~diriv.file.exists \/ fail
               THEN DirIVStep([call EXCEPT !.pc = "ret",
                                          !.err = IF diriv.file.exists THEN EACCES ELSE ENOENT])
               ELSE DirIVStep([call EXCEPT !.fds = 1, !.pc = "read", !.err = ""])

\* A check that refuses every value with a zero byte in it.
VerifyNoZeroByte(data, fail) ==
    LET iv == Take(data, Min(Len(data), DirIVLen + 1))
    IN  IF fail \/ Len(iv) # DirIVLen \/ \E i \in 1..Len(iv) : iv[i] = 0
        THEN [err |-> EIO, iv |-> <<>>]
        ELSE [err |-> OK, iv |-> iv]

\* A check that takes any 16 bytes.
VerifyAnyDirIV(data, fail) ==
    LET iv == Take(data, Min(Len(data), DirIVLen + 1))
    IN  IF fail \/ Len(iv) # DirIVLen
        THEN [err |-> EIO, iv |-> <<>>]
        ELSE [err |-> OK, iv |-> iv]

\* fdReadDirIV on a file that holds data: one Read into a buffer of
\* DirIVLen + 1 bytes, then the checks of length and content.
VerifyDirIV(data, fail) ==
    LET iv == Take(data, Min(Len(data), DirIVLen + 1))
    IN  IF fail \/ Len(iv) # DirIVLen \/ iv = allZeroDirIV
        THEN [err |-> EIO, iv |-> <<>>]
        ELSE [err |-> OK, iv |-> iv]

\* fdReadDirIV, and the deferred fd.Close() of ReadDirIVAt.
fdReadDirIV ==
    \E fail \in BOOLEAN :
        LET r == VerifyDirIV(diriv.file.data, fail)
        IN  /\ diriv.pc = "read"
            /\ DirIVStep([diriv EXCEPT !.fds = 0, !.pc = "ret", !.err = r.err,
                                       !.out = r.iv, !.fault = fail])

\* The call has returned.
DirIVDone ==
    /\ diriv.pc = "ret"
    /\ DirIVStep([diriv EXCEPT !.pc = "idle"])

DirIVNext ==
    \/ PutDirIV \/ RemoveDirIV
    \/ WriteDirIVAt \/ WriteDirIVAtWrite \/ WriteDirIVAtClose
    \/ ReadDirIVAt \/ fdReadDirIV
    \/ DirIVDone

SysInit == ImpInit /\ PreallocInit /\ DirIVInit

\* --------------------------------------------------- specifications ----

\* One thread issuing calls one after the other on a new, empty file.
Init == FileInit(FALSE, {<<>>}, {FALSE}) /\ CacheInit /\ SysInit
Next == FileNext
Spec == Init /\ [][Next]_vars

\* Two threads, one call each, running concurrently on the same handle.
InitConc == FileInit(TRUE, ConcFiles, {FALSE}) /\ CacheInit /\ SysInit
SpecConc == InitConc /\ [][Next]_vars

\* The directory cache and its callers.
SpecCache == Init /\ [][CacheNext]_vars

\* One thread reading and writing gocryptfs.diriv in one directory.
SpecDirIV == Init /\ [][DirIVNext]_vars

\* Two threads calling EnospcPrealloc.
SpecPrealloc == Init /\ [][PreallocNext]_vars

\* One thread issuing impersonating calls one after the other.
SpecUser == Init /\ [][UserNext]_vars

\* The expire thread is a goroutine of its own that loops for ever over a
\* sleep and a Clear; the scheduler runs it and the mutex is handed to it
\* in the end, so its step is taken when it stays enabled.
SpecCacheFair == Init /\ [][CacheNext]_vars /\ WF_vars(expireThread)

\* One thread issuing calls one after the other on a handle opened
\* write-only.
InitWriteOnly == FileInit(FALSE, {<<>>}, {TRUE}) /\ CacheInit /\ SysInit
SpecWriteOnly == InitWriteOnly /\ [][Next]_vars

\* One thread issuing every call of a handle, Release among them.
SpecRelease == Init /\ [][HandleNext]_vars

\* A file of MaxPlain plaintext bytes in which one cell of one ciphertext
\* block (its nonce, a payload byte or its tag) was changed behind the
\* program's back.
IntactFile == EncryptBlocks([i \in 1..MaxPlain |-> i % ByteMod], 0)
Corrupt(file, i) ==
    LET j == (i - 1) % CipherBS
    IN  [file EXCEPT ![i] = IF j = 0 \/ j = CipherBS - 1 \/ i = Len(file)
                            THEN @ + 1
                            ELSE (@ + 1) % ByteMod]
\* The nonce of block 0, the first payload byte of block 1, the tag of the
\* last block.
CorruptCells == {1, CipherBS + 2, Len(IntactFile)}
CorruptFiles == {Corrupt(IntactFile, i) : i \in CorruptCells}

\* One thread issuing calls one after the other on a corrupted file.
InitCorrupt == FileInit(FALSE, CorruptFiles, {FALSE}) /\ CacheInit /\ SysInit
SpecCorrupt == InitCorrupt /\ [][Next]_vars

\* ------------------------------------------------------------ claims ----

\* Thread p's call `name` has just returned and no other thread has run
\* since it began: pre[p] is the file before the call, backing the file after.
Returned(p, name) == th[p].pc = "ret" /\ th[p].name = name /\ solo[p]

\* The statuses of the injected syscall failures.
Injected == {ENOMEM, ENOSPC}

\* The whole plaintext of a file, as a Read of everything returns it.
ReadAll(file) == doRead(file, 0, MaxPlain + PlainBS)
PlainOf(file) == ReadAll(file).out
Readable(file) == ReadAll(file).status = OK

\* C5: a Write(P, o) that returned OK, followed by a Read of len(P) bytes at o
\* with nothing in between, returns exactly P.  (The Read that follows is
\* doRead on the file the Write left; it is taken on a readable handle and
\* without a failing pread.)
C5_WriteReadRoundTrip ==
    \A p \in Procs :
        Returned(p, "Write") /\ th[p].status = OK
            => doRead(backing, th[p].off, Len(th[p].data))
                   = [status |-> OK, out |-> th[p].data]

\* C5 witness: a Write of two bytes beyond the end of a non-empty file, across
\* a block boundary, has returned OK.
C5_Witness ==
    \E p \in Procs :
        /\ Returned(p, "Write") /\ th[p].status = OK
        /\ Len(th[p].data) >= 2
        /\ Len(PlainOf(pre[p])) > 0
        /\ th[p].off > Len(PlainOf(pre[p]))
        /\ th[p].off % PlainBS = PlainBS - 1

\* The frame of a Write(data, off) over the old plaintext: only [off, off+len)
\* changes, the size becomes max(S, off+len), a write inside the file keeps
\* the backing size.
WriteFrame(p) ==
    LET old == PlainOf(pre[p])
        new == PlainOf(backing)
        off == th[p].off
        n   == Len(th[p].data)
    IN  /\ Readable(backing)
        /\ Len(new) = Max(Len(old), off + n)
        /\ \A i \in 1..Len(old) : (i <= off \/ i > off + n) => new[i] = old[i]
        /\ off + n <= Len(old) => Len(backing) = Len(pre[p])

HoleFilled(p) ==
    LET old == PlainOf(pre[p])
        new == PlainOf(backing)
        off == th[p].off
        n   == Len(th[p].data)
    IN  /\ Readable(backing)
        /\ Len(new) = off + n
        /\ \A i \in (Len(old) + 1)..off : new[i] = 0
        /\ SubSeq(new, off + 1, off + n) = th[p].data

\* A Write whose zero-pad failed returns the error with 0 bytes written and
\* has written nothing.
ZeroPadFailure(p) ==
    th[p].caller = "zeroPad" /\ th[p].status # OK
        => th[p].n = 0 /\ backing = pre[p]

C7_WitnessPadFailed ==
    \E p \in Procs :
        Returned(p, "Write") /\ th[p].caller = "zeroPad" /\ th[p].status # OK

\* C8: a Write of zero bytes, at any offset, returns 0 bytes written with OK
\* status and leaves the backing file unchanged (unless fstat itself failed).
C8_ZeroLengthWriteNoOp ==
    \A p \in Procs :
        Returned(p, "Write") /\ Len(th[p].data) = 0 /\ th[p].status \notin Injected
            => th[p].status = OK /\ th[p].n = 0 /\ backing = pre[p]

\* C9: GetAttr reports plaintext size 0 exactly when the backing file is
\* empty, and a Truncate(0) that returned OK leaves an empty backing file.
C9_EmptyIffEmpty ==
    \A p \in Procs :
        /\ Returned(p, "GetAttr") /\ th[p].status = OK
               => (th[p].n = 0 <=> Len(backing) = 0)
        /\ Returned(p, "Truncate") /\ th[p].status = OK /\ th[p].off = 0
               => Len(backing) = 0

\* C9 witness: Truncate(0) of a non-empty file has returned OK.
C9_Witness ==
    \E p \in Procs :
        /\ Returned(p, "Truncate") /\ th[p].status = OK /\ th[p].off = 0
        /\ Len(pre[p]) > CipherBS

\* C10: a Truncate to new_size <= S returns OK unless a syscall failed, then
\* the size is new_size and the bytes [0, new_size) are unchanged; when the
\* read of the old last block fails the error is returned and the backing
\* file is as it was.
C10_TruncateShrink ==
    \A p \in Procs :
        Returned(p, "Truncate") /\ Readable(pre[p])
        /\ th[p].off <= Len(PlainOf(pre[p]))
            => /\ th[p].status \in {OK} \cup Injected
               /\ th[p].status = OK
                     => /\ Readable(backing)
                        /\ PlainOf(backing) = Take(PlainOf(pre[p]), th[p].off)
               /\ th[p].from = "shrinkRead"
                     => th[p].status # OK /\ backing = pre[p]

\* C10 witness: a Truncate that cut a file inside a block, dropping a later
\* block too, has returned OK.
C10_Witness ==
    \E p \in Procs :
        /\ Returned(p, "Truncate") /\ th[p].status = OK
        /\ th[p].off % PlainBS # 0
        /\ Len(PlainOf(pre[p])) > th[p].off + PlainBS
        /\ \E i \in 1..th[p].off : PlainOf(pre[p])[i] # 0

\* C10 witness of the failure case: the read of the old last block failed.
C10_WitnessReadFailed ==
    \E p \in Procs :
        Returned(p, "Truncate") /\ th[p].from = "shrinkRead"

\* What Write(data, off) makes of a plaintext when it runs alone.
SerialWrite(plain, data, off) ==
    [i \in 1..Max(Len(plain), off + Len(data)) |->
        IF i > off /\ i <= off + Len(data) THEN data[i - off]
        ELSE IF i <= Len(plain) THEN plain[i]
        ELSE 0]

\* C1: when two concurrent Writes of at least one byte on the same handle have
\* both returned OK, the plaintext is what the two writes leave when they run
\* one after the other in one of the two orders.
C1_WritesSerialized ==
    \A p, q \in Procs :
        ( /\ p # q
          /\ th[p].pc = "ret" /\ th[p].name = "Write" /\ th[p].status = OK
          /\ th[q].pc = "ret" /\ th[q].name = "Write" /\ th[q].status = OK
          /\ Len(th[p].data) > 0 /\ Len(th[q].data) > 0 )
        => /\ Readable(backing)
           /\ PlainOf(backing) \in
                 { SerialWrite(SerialWrite(PlainOf(file0), th[p].data, th[p].off),
                               th[q].data, th[q].off),
                   SerialWrite(SerialWrite(PlainOf(file0), th[q].data, th[q].off),
                               th[p].data, th[p].off) }

\* C2: once a Truncate that shrinks the file to a size inside a block has
\* modified the backing file, the shortened last block is in it: the block was
\* written before ftruncate cut the file.
C2_BlockWrittenBeforeFtruncate ==
    \A p \in Procs :
        LET newSize  == th[p].off
            blockNo  == BlockNoPlainOff(newSize)
            plainOff == blockNo * PlainBS
            block    == doRead(backing, plainOff, PlainBS)
        IN  ( /\ th[p].name = "Truncate" /\ MidCall(th[p]) /\ solo[p]
              /\ newSize <= Len(PlainOf(pre[p]))
              /\ newSize % PlainBS # 0
              /\ backing # pre[p] )
            => /\ block.status = OK
               /\ block.out = SubSeq(PlainOf(pre[p]), plainOff + 1, newSize)

\* The plaintext blocks of a file, and the plaintext that takes each block
\* from one of two files.
PlainBlock(plain, k) == SubSeq(plain, k * PlainBS + 1, Min((k + 1) * PlainBS, Len(plain)))
RECURSIVE Hybrid(_, _, _, _)
Hybrid(old, new, pick, k) ==
    IF k > MaxBlocks THEN <<>>
    ELSE PlainBlock(IF pick[k] THEN new ELSE old, k) \o Hybrid(old, new, pick, k + 1)

\* C4: a Read that ran concurrently with a Write returns OK and, block by
\* block, the plaintext from before the Write or from after it.
C4_ReadSeesWholeBlocks ==
    \A r, w \in Procs :
        ( /\ r # w
          /\ th[r].pc = "ret" /\ th[r].name = "Read"
          /\ th[w].pc = "ret" /\ th[w].name = "Write" )
        => /\ th[r].status = OK
           /\ \E pick \in [0..MaxBlocks -> BOOLEAN] :
                 LET h == Hybrid(PlainOf(file0), PlainOf(backing), pick, 0)
                 IN  th[r].out = SubSeq(h, th[r].off + 1, Min(th[r].off + th[r].len, Len(h)))

\* C4 witness: both calls returned, and the Read saw one block of the Write
\* and not the other: its result is neither the old nor the new plaintext.
C4_Witness ==
    \E r, w \in Procs :
        /\ r # w
        /\ th[r].pc = "ret" /\ th[r].name = "Read" /\ th[r].status = OK
        /\ th[w].pc = "ret" /\ th[w].name = "Write" /\ th[w].status = OK
        /\ th[r].out # Take(Drop(PlainOf(file0), th[r].off), th[r].len)
        /\ th[r].out # Take(Drop(PlainOf(backing), th[r].off), th[r].len)

\* C3: a Lookup of a path after a Store of it that took effect, with no Clear
\* and fewer than dirCacheSize Stores since, and whose own Dup succeeded, is
\* a hit that returns the stored IV and a descriptor of the stored directory.
C3_LookupReturnsLastStore ==
    ( /\ res.op = "Lookup" /\ ~res.dupFailed
      /\ stored[res.path].valid )
    => /\ res.fd > 0
       /\ res.iv = stored[res.path].iv
       /\ fdTable[res.fd].dir = stored[res.path].dir

\* C11: a Truncate to new_size > S returns OK unless a syscall failed; then
\* the plaintext is the old one followed by zeros up to new_size.  A Truncate
\* to the size the file has, as a repeated Truncate is, that returned OK
\* leaves every plaintext byte and the size as they were.
C11_TruncateGrow ==
    \A p \in Procs :
        LET old     == PlainOf(pre[p])
            newSize == th[p].off
        IN  Returned(p, "Truncate") /\ Readable(pre[p])
            => /\ newSize > Len(old)
                     => /\ th[p].status \in {OK} \cup Injected
                        /\ th[p].status = OK
                              => /\ Readable(backing)
                                 /\ PlainOf(backing) = old \o Zeros(newSize - Len(old))
               /\ newSize = Len(old) /\ th[p].status = OK
                     => Readable(backing) /\ PlainOf(backing) = old

\* C11 witness: a Truncate from an unaligned size to an unaligned size two
\* blocks on, over a file with a non-zero byte, has returned OK.
C11_Witness ==
    \E p \in Procs :
        /\ Returned(p, "Truncate") /\ th[p].status = OK
        /\ Len(PlainOf(pre[p])) % PlainBS # 0
        /\ th[p].off % PlainBS # 0
        /\ th[p].off > Len(PlainOf(pre[p])) + PlainBS
        /\ \E i \in 1..Len(PlainOf(pre[p])) : PlainOf(pre[p])[i] # 0

\* C11 witness of the repeated call: a Truncate to the unaligned size the
\* file already has has returned OK.
C11_WitnessRepeated ==
    \E p \in Procs :
        /\ Returned(p, "Truncate") /\ th[p].status = OK
        /\ th[p].off = Len(PlainOf(pre[p]))
        /\ th[p].off % PlainBS # 0

\* The cells of ciphertext block k of a file, the blocks that fail to
\* decrypt, and the blocks a Read of (off, len) covers.
BlockCells(file, k) == SubSeq(file, k * CipherBS + 1, Min((k + 1) * CipherBS, Len(file)))
BadBlocks(file) == {k \in 0..MaxBlocks : DecryptBlock(BlockCells(file, k), k).err}
Covered(off, len) ==
    IF len = 0 THEN {} ELSE (off \div PlainBS)..((off + len - 1) \div PlainBS)
\* The plaintext of the covered blocks, each decrypted on its own, and of it
\* the bytes (off, len) that exist.
RECURSIVE BlocksPlain(_, _, _)
BlocksPlain(file, k, last) ==
    IF k > last THEN <<>>
    ELSE DecryptBlock(BlockCells(file, k), k).plain \o BlocksPlain(file, k + 1, last)
ExpectedRead(file, off, len) ==
    LET first == off \div PlainBS
        plain == BlocksPlain(file, first, (off + len - 1) \div PlainBS)
    IN  IF len = 0 THEN <<>>
        ELSE Take(Drop(plain, off - first * PlainBS), len)

\* C12: a Read whose range covers a block that fails authentication returns
\* EIO and no plaintext; a Read that covers only intact blocks of a file with
\* a bad block returns OK (unless its pread failed) and the bytes of the
\* range that exist.
C12_AuthFailure ==
    \A p \in Procs :
        Returned(p, "Read") /\ BadBlocks(backing) # {}
        => IF Covered(th[p].off, th[p].len) \cap BadBlocks(backing) # {}
           THEN th[p].status \in {EIO} \cup Injected /\ th[p].out = <<>> /\ th[p].n = 0
           ELSE /\ th[p].status \in {OK} \cup Injected
                /\ th[p].status = OK
                      => th[p].out = ExpectedRead(backing, th[p].off, th[p].len)

\* C12 witness: a Read over an intact block and the bad block after it has
\* returned EIO.
C12_Witness ==
    \E p \in Procs :
        /\ Returned(p, "Read") /\ th[p].status = EIO
        /\ th[p].off \div PlainBS \notin BadBlocks(backing)
        /\ (th[p].off \div PlainBS) + 1 \in BadBlocks(backing)
        /\ (th[p].off \div PlainBS) + 1 \in Covered(th[p].off, th[p].len)

\* C12 witness of the other half: a Read of non-zero bytes of an intact block
\* of a file with a bad block has returned OK.
C12_WitnessIntact ==
    \E p \in Procs :
        /\ Returned(p, "Read") /\ th[p].status = OK
        /\ BadBlocks(backing) # {}
        /\ \E i \in 1..Len(th[p].out) : th[p].out[i] # 0

\* C13: a Read(off, len) on a file of plaintext size S returns OK unless its
\* pread failed, and then exactly the plaintext bytes [off, min(off+len, S)):
\* nothing when off >= S, fewer than len bytes when the range passes S.
C13_ReadClampsAtEof ==
    \A p \in Procs :
        LET plain == BlocksPlain(backing, 0, MaxBlocks)
            S     == PlainSize(Len(backing))
            off   == th[p].off
        IN  Returned(p, "Read")
            => /\ Len(plain) = S
               /\ th[p].status \in {OK} \cup Injected
               /\ th[p].status = OK
                     => /\ th[p].out = SubSeq(plain, off + 1, Min(off + th[p].len, S))
                        /\ th[p].n = Len(th[p].out)

\* C13 witness: a Read that starts inside the file and reaches past its end
\* has returned OK with a non-zero byte.
C13_Witness ==
    \E p \in Procs :
        /\ Returned(p, "Read") /\ th[p].status = OK
        /\ th[p].off < PlainSize(Len(backing))
        /\ th[p].off + th[p].len > PlainSize(Len(backing))
        /\ th[p].off % PlainBS # 0
        /\ \E i \in 1..Len(th[p].out) : th[p].out[i] # 0

\* C13 witness of the read past the end: a Read at an offset behind the end
\* of a non-empty file has returned OK with nothing.
C13_WitnessPastEof ==
    \E p \in Procs :
        /\ Returned(p, "Read") /\ th[p].status = OK /\ th[p].len > 0
        /\ PlainSize(Len(backing)) > 0
        /\ th[p].off > PlainSize(Len(backing))
        /\ th[p].out = <<>>

\* C14: once Release has returned, no step changes the backing file or its
\* attributes, and every call that returns (a further Release, which has no
\* status, aside) returns an error status.
C14_ReleasedHandleFails ==
    [][ fdClosed =>
          /\ backing' = backing /\ attrs' = attrs
          /\ \A p \in Procs :
                ( /\ th[p].pc # "ret" /\ th'[p].pc = "ret"
                  /\ th'[p].name # "Release" )
                => th'[p].status # OK ]_vars

\* C15: on a handle opened write-only every Read returns EBADF and nothing
\* else (no result of a pread, failed or not), while a Write of at least one
\* byte returns OK unless a syscall failed and then has merged its partial
\* blocks into the old ones as on any handle.
C15_WriteOnlyHandle ==
    \A p \in Procs :
        writeOnly
        => /\ Returned(p, "Read")
                 => /\ th[p].status = EBADF /\ th[p].out = <<>> /\ th[p].n = 0
                    /\ th[p].from = "idle"
           /\ Returned(p, "Write") /\ Len(th[p].data) > 0
                 => /\ th[p].status \in {OK} \cup Injected
                    /\ th[p].status = OK => WriteFrame(p)

\* C15 witness: on a write-only handle a one-byte Write into the middle of a
\* block that holds a non-zero byte has returned OK.
C15_Witness ==
    \E p \in Procs :
        /\ writeOnly
        /\ Returned(p, "Write") /\ th[p].status = OK
        /\ Len(th[p].data) = 1
        /\ th[p].off % PlainBS # 0
        /\ th[p].off < Len(PlainOf(pre[p]))
        /\ PlainOf(pre[p])[th[p].off] # 0

\* C15 witness of the refused Read: a Read of bytes that exist has returned
\* on a write-only handle.
C15_WitnessRead ==
    \E p \in Procs :
        /\ writeOnly
        /\ Returned(p, "Read") /\ th[p].len > 0
        /\ th[p].off < PlainSize(Len(backing))

\* The slots that hold an entry.
Filled == {i \in Slots : entries[i].fd > 0}

\* C16: in every interleaving of Lookup, Store, Clear and the purger's Clear,
\* the descriptor of every filled slot is open and the cache's own, so a
\* Lookup never duplicates a closed one; and a Lookup hit returns the IV of a
\* slot with the looked-up path together with a descriptor of the directory
\* that same slot's descriptor refers to.
C16_OperationsAtomic ==
    /\ \A i \in Filled : fdTable[entries[i].fd].owner = "cache"
    /\ (res.op = "Lookup" /\ res.fd > 0)
       => \E i \in Filled :
              /\ entries[i].dirRelPath = res.path
              /\ entries[i].iv = res.iv
              /\ fdTable[res.fd].dir = fdTable[entries[i].fd].dir

\* A Lookup hit after a Clear or an eviction emptied a slot, while another
\* slot holds a different directory under a different IV.
C16_Witness ==
    /\ res.op = "Lookup" /\ res.fd > 0
    /\ \E i \in Slots : entries[i].fd = -1
    /\ \E j \in Filled :
           /\ entries[j].iv # res.iv
           /\ fdTable[entries[j].fd].dir # fdTable[res.fd].dir

\* The descriptors the cache owns.
CacheFds == {n \in FdNums : fdTable[n].owner = "cache"}

\* C17: a Store that passes its argument check, whether or not its Dup
\* succeeds, leaves every slot but the one at nextIndex as it was, closes the
\* descriptor that slot held and advances nextIndex by one modulo
\* dirCacheSize; Lookup, Clear and the purger leave nextIndex alone.  The
\* cache owns the descriptors of its filled slots and no other, at most
\* dirCacheSize of them, and an entry is still in its slot while at most two
\* Stores and no Clear followed the Store that put it there.
C17_RoundRobin ==
    /\ [](/\ CacheFds = {entries[i].fd : i \in Filled}
          /\ Cardinality(CacheFds) <= dirCacheSize
          /\ \A q \in Paths :
                 stored[q].valid
                 => \E i \in Filled :
                        /\ entries[i].dirRelPath = q
                        /\ entries[i].iv = stored[q].iv
                        /\ fdTable[entries[i].fd].dir = stored[q].dir)
    /\ [][/\ (Store /\ ~panicked')
             => /\ nextIndex' = (nextIndex + 1) % dirCacheSize
                /\ \A i \in Slots \ {nextIndex} : entries'[i] = entries[i]
                /\ entries'[nextIndex].fd # -1
                   => /\ entries'[nextIndex].fd > 0
                      /\ fdTable'[entries'[nextIndex].fd].owner = "cache"
                /\ entries[nextIndex].fd > 0
                   => \/ fdTable'[entries[nextIndex].fd] = NoFile
                      \/ entries'[nextIndex].fd = entries[nextIndex].fd
          /\ (Lookup \/ Clear \/ expireThread) => nextIndex' = nextIndex]_vars

\* The cache is full, the index has wrapped around, and an entry has
\* survived the two Stores that followed its own.
C17_Witness ==
    /\ Cardinality(Filled) = dirCacheSize
    /\ nextIndex = 0
    /\ \E q \in Paths : stored[q].valid /\ stored[q].since = dirCacheSize - 1

\* A Store whose Dup failed has emptied a filled slot and moved the index on.
C17_WitnessDupFailed ==
    /\ entries[(nextIndex + dirCacheSize - 1) % dirCacheSize].fd = -1
    /\ Cardinality(Filled) = dirCacheSize - 1
    /\ expireThreadRunning

\* C18: no filled slot holds a descriptor a caller holds, and the descriptor
\* a Lookup hit returns is the caller's and not the slot's.  A caller closing
\* a descriptor leaves the slots and their descriptors as they were; Store,
\* Clear and the purger leave every descriptor a caller holds as it was.  A
\* Lookup that finds no slot for the path, or whose Dup fails, returns
\* (-1, nil) and changes neither the slots, nor the index, nor a descriptor.
C18_DescriptorOwnership ==
    /\ [](/\ \A i \in Filled : entries[i].fd \notin CallerFds
          /\ (res.op = "Lookup" /\ res.fd > 0)
             => /\ res.fd \in CallerFds
                /\ \A i \in Filled : entries[i].fd # res.fd)
    /\ [][/\ CloseFd
             => /\ entries' = entries
                /\ \A i \in Filled : fdTable'[entries[i].fd] = fdTable[entries[i].fd]
          /\ (Store \/ Clear \/ expireThread)
             => \A n \in CallerFds : fdTable'[n] = fdTable[n]
          /\ (Lookup /\ (res'.dupFailed
                          \/ \A i \in Filled : entries[i].dirRelPath # res'.path))
             => /\ res'.fd = -1 /\ res'.iv = <<>>
                /\ entries' = entries /\ nextIndex' = nextIndex
                /\ fdTable' = fdTable]_vars

\* A Lookup hit whose descriptor is not the slot's, while the caller's copy
\* of the stored descriptor is closed.
C18_Witness ==
    /\ res.op = "Lookup" /\ res.fd > 0
    /\ CallerFds = {res.fd}
    /\ \E i \in Filled : entries[i].dirRelPath = res.path /\ entries[i].fd # res.fd

\* A Lookup of a cached path whose Dup failed.
C18_WitnessDupFailed ==
    /\ res.op = "Lookup" /\ res.dupFailed /\ res.fd = -1
    /\ \E i \in Filled : entries[i].dirRelPath = res.path

\* C19: a Clear, the purger's included, leaves every slot with fd = -1, no
\* path and no IV, and the cache owning no descriptor.  While no slot is
\* filled every Lookup is a miss, and only a Store fills a slot again.  A
\* Clear of a cache with no filled slot, as a never-filled or a just cleared
\* one is, leaves the descriptor table as it was.
C19_ClearEmptiesCache ==
    [][/\ (Clear \/ expireThread)
          => /\ \A i \in Slots : entries'[i] = ClearedEntry
             /\ \A n \in FdNums : fdTable'[n].owner # "cache"
             /\ Filled = {} => fdTable' = fdTable
       /\ (Lookup /\ Filled = {})
          => /\ res'.fd = -1 /\ res'.iv = <<>> /\ ~res'.dupFailed
             /\ fdTable' = fdTable
       /\ (Filled = {} /\ \E i \in Slots : entries'[i].fd > 0)
          => /\ Store
             /\ entries'[nextIndex].fd > 0
             /\ fdTable'[entries'[nextIndex].fd].owner = "cache"]_vars

\* A Lookup that missed in a cache that a Clear emptied after a Store had
\* filled a slot.
C19_Witness ==
    /\ res.op = "Lookup" /\ res.fd = -1
    /\ \A i \in Slots : entries[i] = ClearedEntry
    /\ expireThreadRunning
    /\ nextIndex = 1

C21_SanityChecks ==
    /\ [](/\ \A i \in Filled :
                 entries[i].fd >= FirstFd /\ Len(entries[i].iv) = DirIVLen
          /\ (res.op = "Lookup" /\ res.fd # -1)
             => res.fd >= FirstFd /\ Len(res.iv) = DirIVLen)
    /\ [][(~panicked /\ panicked')
          => /\ Store
             /\ entries' = entries /\ nextIndex' = nextIndex
             /\ fdTable' = fdTable
             /\ expireThreadRunning' = expireThreadRunning]_vars

\* A Store has failed its sanity check on a cache that holds an entry.
C21_Witness ==
    /\ panicked
    /\ Filled # {}

\* C31: the descriptors the cache owns are exactly those of the filled
\* slots, one per slot and at most dirCacheSize, and the cache never closes
\* a descriptor that is not its own, so none twice.  A Store that passes its
\* argument check closes the descriptor of the slot it evicts, and no other,
\* and owns one more only if its Dup succeeded; when the Dup failed the slot
\* is left empty and the evicted descriptor closed.  A Clear, the purger's
\* included, closes every descriptor of the cache and no other; Lookup and
\* the callers' own opens and closes leave the cache's descriptors alone.
C31_DescriptorAccounting ==
    /\ [](/\ CacheFds = {entries[i].fd : i \in Filled}
          /\ Cardinality(CacheFds) = Cardinality(Filled)
          /\ Cardinality(CacheFds) <= dirCacheSize
          /\ ~closeFault)
    /\ [][/\ (Store /\ ~panicked')
             => LET old == {entries[nextIndex].fd} \cap CacheFds
                    new == {entries'[nextIndex].fd} \cap FdNums
                IN  /\ CacheFds' = (CacheFds \ old) \cup new
                    /\ \A n \in old \ new : fdTable'[n] = NoFile
                    /\ \A n \in FdNums \ (old \cup new) : fdTable'[n] = fdTable[n]
                    /\ new = {} => entries'[nextIndex] = ClearedEntry
          /\ (Clear \/ expireThread)
             => /\ CacheFds' = {}
                /\ \A n \in CacheFds : fdTable'[n] = NoFile
                /\ \A n \in FdNums \ CacheFds : fdTable'[n] = fdTable[n]
          /\ (Lookup \/ OpenDir \/ CloseFd \/ (Store /\ panicked'))
             => /\ CacheFds' = CacheFds
                /\ \A n \in CacheFds : fdTable'[n] = fdTable[n]]_vars

\* A Store whose Dup failed has just evicted a filled slot: the slot is
\* empty, the evicted descriptor is closed, and the cache owns the
\* descriptors of the two other slots.
C31_Witness ==
    /\ evicted > 0
    /\ entries[(nextIndex + dirCacheSize - 1) % dirCacheSize] = ClearedEntry
    /\ fdTable[evicted] = NoFile
    /\ Cardinality(Filled) = dirCacheSize - 1
    /\ Cardinality(CacheFds) = dirCacheSize - 1

C32_WitnessDupFailed ==
    /\ expireThreads = 0
    /\ ~expireThreadRunning
    /\ nextIndex = 1
    /\ entries[0] = ClearedEntry

\* The impersonating call has a context.
Impersonating == ~imp.context.nil

\* C22: in a call with a context the gid is swapped only on the pinned
\* thread, the uid only after the gid, and the syscall runs pinned under the
\* owner's uid and gid; the uid is restored before the gid, the thread is
\* unpinned only with the effective uid and gid it had at entry, and the call
\* returns unpinned with the uid and gid it had at entry.
C22_ImpersonationOrder ==
    /\ [](Impersonating
          => /\ imp.pc \in {"setregid", "setreuid", "syscall"} => imp.locked
             /\ imp.pc \in {"setreuid", "syscall"} => imp.egid = imp.context.gid
             /\ imp.pc = "syscall" => imp.euid = imp.context.uid
             /\ imp.ran => /\ imp.ranEuid = imp.context.uid
                           /\ imp.ranEgid = imp.context.gid
             /\ imp.pc = "ret" => /\ ~imp.locked
                                  /\ imp.euid = imp.entryEuid
                                  /\ imp.egid = imp.entryEgid)
    /\ [][Impersonating
          => /\ (imp.locked /\ ~imp'.locked)
                => imp'.euid = imp.entryEuid /\ imp'.egid = imp.entryEgid
             /\ (imp.pc = "defers" /\ imp'.egid # imp.egid)
                => imp.euid = imp.entryEuid]_vars

\* C23: a call in which a deferred Setreuid(-1, 0) or Setregid(-1, 0) failed
\* does not return, and every call that returns leaves the thread with the
\* effective uid and gid of the process.
C23_RestoreFailureIsFatal ==
    imp.pc = "ret"
    => /\ ~imp.restoreFailed
       /\ imp.euid = 0 /\ imp.egid = 0

\* WriteDirIVAt has returned.
WriteReturned == diriv.pc = "ret" /\ diriv.name = "WriteDirIVAt"

C24_WitnessExists ==
    /\ WriteReturned
    /\ diriv.err = EEXIST
    /\ diriv.file.exists /\ diriv.file.data = MixedIV

\* ReadDirIVAt has returned.
ReadReturned == diriv.pc = "ret" /\ diriv.name = "ReadDirIVAt"

C26_ReadDirIVChecks ==
    ReadReturned
    => /\ diriv.err = OK
          <=> /\ diriv.entry.exists /\ ~diriv.fault
              /\ Len(diriv.entry.data) = DirIVLen
              /\ \E i \in 1..DirIVLen : diriv.entry.data[i] # 0
       /\ diriv.out = IF diriv.err = OK THEN diriv.entry.data ELSE <<>>
       /\ diriv.fds = 0
       /\ diriv.file = diriv.entry

\* A file of DirIVLen zero bytes was read and refused.
C26_Witness ==
    /\ ReadReturned
    /\ ~diriv.fault
    /\ diriv.entry.data = allZeroDirIV
    /\ diriv.err # OK /\ diriv.out = <<>>

\* A file of DirIVLen + 1 bytes was read and refused.
C26_WitnessLong ==
    /\ ReadReturned
    /\ ~diriv.fault
    /\ Len(diriv.entry.data) = DirIVLen + 1
    /\ diriv.err # OK /\ diriv.out = <<>>

\* A file with zero bytes among its DirIVLen bytes was read and accepted.
C26_WitnessAccepted ==
    /\ ReadReturned
    /\ diriv.entry.data = MixedIV
    /\ diriv.err = OK /\ diriv.out = MixedIV

\* C27: a round of the loop whose fallocate returned EINTR is followed by
\* another round, and a round with any other result ends the call.  The call
\* returns nil when the last fallocate returned EOPNOTSUPP and that
\* fallocate's result otherwise, so never EINTR or EOPNOTSUPP.  The warning
\* is printed once when a call of any thread has met EOPNOTSUPP, and never
\* a second time.
C27_EnospcPrealloc ==
    /\ [](/\ \A p \in PreallocProcs :
                 LET c == prealloc.t[p]
                 IN  c.pc = "ret"
                     => /\ c.last # EINTR
                        /\ c.err = IF c.last = EOPNOTSUPP THEN OK ELSE c.last
                        /\ c.err \notin {EINTR, EOPNOTSUPP}
          /\ prealloc.warnings = IF prealloc.once THEN 1 ELSE 0
          /\ prealloc.once
             <=> \/ \E p \in PreallocProcs : prealloc.t[p].last = EOPNOTSUPP
                 \/ prealloc.warnings > 0)
    /\ [][\A p \in PreallocProcs :
             (prealloc.t[p].pc = "loop" /\ prealloc'.t[p] # prealloc.t[p])
             => /\ prealloc'.t[p].last = EINTR => prealloc'.t[p].pc = "loop"
                /\ prealloc'.t[p].last # EINTR => prealloc'.t[p].pc = "ret"]_vars

\* Both threads are returning from a call that met EOPNOTSUPP, one of them
\* after an interrupted round, and one warning was printed.
C27_Witness ==
    /\ \A p \in PreallocProcs :
           /\ prealloc.t[p].pc = "ret"
           /\ prealloc.t[p].last = EOPNOTSUPP
           /\ prealloc.t[p].err = OK
    /\ \E p \in PreallocProcs : prealloc.t[p].tries > 0
    /\ prealloc.warnings = 1

\* C28: no step of a Flush closes the descriptor of the handle or changes
\* the backing file or its attributes; a Flush holds at most the one
\* duplicate it made and returns, on every path, with no duplicate open.  A
\* Read, Write or Flush on a handle that was not released fails only when a
\* syscall fails or the file is corrupt, never with EBADF.
C28_FlushKeepsDescriptor ==
    /\ [](/\ dupFds \in {0, 1}
          /\ dupFds = Cardinality({p \in Procs : th[p].pc = "flushClose"})
          /\ \A p \in Procs :
                 (th[p].pc = "ret" /\ ~fdClosed /\ ~writeOnly) => th[p].status # EBADF)
    /\ [][\A p \in Procs :
             (th'[p] # th[p] /\ th'[p].name = "Flush")
             => /\ fdClosed' = fdClosed
                /\ backing' = backing
                /\ attrs' = attrs]_vars

\* A Write has succeeded on a handle after a Flush: the file holds data and
\* the last call, a Flush too, has returned OK with no duplicate left.
C28_Witness ==
    /\ th[1].pc = "ret" /\ th[1].name = "Flush" /\ th[1].status = OK
    /\ backing # <<>>
    /\ ~fdClosed
    /\ dupFds = 0

\* The bytes of the first k blocks.
RECURSIVE LengthOfBlocks(_, _)
LengthOfBlocks(blocks, k) ==
    IF k = 0 THEN 0 ELSE blocks[k].Length + LengthOfBlocks(blocks, k - 1)

C30_ShrinkKeepsPrefix ==
    \A t, g \in Procs :
        LET newSize == th[t].off
            old == PlainOf(file0)
            want == Max(0, Min(th[g].len, newSize - th[g].off))
        IN  ( /\ t # g
              /\ th[t].name = "Truncate" /\ th[t].pc # "idle"
              /\ newSize < Len(old)
              /\ th[g].pc = "ret" )
            => /\ (th[g].name = "GetAttr" /\ th[g].status = OK) => th[g].n >= newSize
               /\ th[g].name = "Read"
                  => /\ th[g].status = OK
                     /\ Len(th[g].out) >= want
                     /\ Take(th[g].out, want) = SubSeq(old, th[g].off + 1, th[g].off + want)

====
